---- MODULE Spec2Model ----
(***************************************************************************)
(* Model of onnxruntime/contrib_ops/cpu/tokenizer.cc: the ternary search   *)
(* tree used as a multi-pattern matcher, and Tokenizer::Compute with its   *)
(* two modes, CharTokenize and SeparatorTokenize.                          *)
(*                                                                         *)
(* Strings (std::string) are sequences of bytes 0..255; wide strings       *)
(* (std::wstring) are sequences of code points, all below 0x10000 here, so *)
(* one wchar_t each whatever its width.  A pointer into the tree is the    *)
(* index of a node in stree.nodes, 0 standing for nullptr.                 *)
(*                                                                         *)
(* The input tensor is read where the code reads it: its type and shape in *)
(* Compute, each cell when the first loop over the cells reaches it.       *)
(* input_data holds the cells read so far.  inserted and put_ret record    *)
(* the calls of put and the last returned bool; pieces records what the    *)
(* scan of the current cell did with the text it passed.                   *)
(***************************************************************************)
EXTENDS Integers, Sequences, FiniteSets, TLC

VARIABLES
  separators_, mark_, mincharnum_, padvalue_,  \* the kernel's attributes
  X_is_string, input_dims, input_data,         \* the input tensor, as far as read
  pc, status,                                  \* position in Compute, returned Status
  N, C,
  stree, sep_idx, inserted, put_ret,           \* the search tree and its build loop
  tokenized_strings, max_tokens,
  wstr, ws, last_mismatch, len_remaining, row_tokens, val, pieces,
  cell, allocated, output_dims, output_data, output_index

vars == <<separators_, mark_, mincharnum_, padvalue_, X_is_string, input_dims,
          input_data, pc, status, N, C, stree, sep_idx, inserted, put_ret,
          tokenized_strings, max_tokens, wstr, ws, last_mismatch,
          len_remaining, row_tokens, val, pieces, cell, allocated,
          output_dims, output_data, output_index>>

-----------------------------------------------------------------------------
(* Bounds of the model *)

MaxSeps == 2
MaxSepLen == 2
MaxCellLen == 3
MaxMinCharNum == 2
MaxPuts == 2
MaxPatLen == 2
MaxQueryLen == 3

(* Bytes the bounded strings are made of: 'a', 'b', and the two bytes of   *)
(* U+00E9 (0xC3 0xA9); any other arrangement of 0xC3 and 0xA9 is invalid.  *)
Bytes == {97, 98, 195, 169}

(* Code units the matcher's patterns and queries are made of: a, b, c. *)
CodeUnits == {97, 98, 99}

SeqsUpTo(S, n) == UNION {[1..k -> S] : k \in 0..n}

-----------------------------------------------------------------------------
(* Program constants *)

start_text == 2
end_text == 3

\* "Conversion Error"
conv_error == <<67, 111, 110, 118, 101, 114, 115, 105, 111, 110, 32, 69, 114, 114, 111, 114>>
wconv_error == <<67, 111, 110, 118, 101, 114, 115, 105, 111, 110, 32, 69, 114, 114, 111, 114>>

OK == "OK"
ErrNoSeparators == "requires at least one separator"
ErrMinCharNum == "mincharnum is too big for char level tokenezation"
ErrInputType == "tensor(string) expected as input"
ErrDims == "Input dimensions are either [C] or [N][C] allowed"
ErrCDim == "Invalid C dimension value"
ErrNCDim == "Invalid N and/or C dimension values"
ErrCharUtf8 == "Input string contains invalid utf8 chars: "
ErrEmptySep == "No empty separators allowed"
ErrSepUtf8 == "Separator strings contains invalid utf8 chars: "
ErrInputUtf8 == "Invalid utf8 chars in the input: "

-----------------------------------------------------------------------------
(* UTF-8 *)

IsCont(b) == 128 <= b /\ b <= 191

\* Length of the UTF-8 sequence a leading byte announces.
utf8_bytes(ch) ==
  IF ch < 128 THEN 1
  ELSE IF ch < 224 THEN 2
  ELSE IF ch < 240 THEN 3
  ELSE 4

\* Whether a well-formed UTF-8 sequence starts at s[i].
WellFormedAt(s, i) ==
  LET b == s[i]
      n == utf8_bytes(b)
  IN /\ b < 128 \/ (194 <= b /\ b <= 244)
     /\ i + n - 1 <= Len(s)
     /\ \A k \in 1..(n - 1) : IsCont(s[i + k])
     /\ (b = 224 => s[i + 1] >= 160)
     /\ (b = 237 => s[i + 1] <= 159)
     /\ (b = 240 => s[i + 1] >= 144)
     /\ (b = 244 => s[i + 1] <= 143)

\* The code point of the well-formed sequence at s[i].
CodePointAt(s, i) ==
  LET b == s[i]
      n == utf8_bytes(b)
  IN IF n = 1 THEN b
     ELSE IF n = 2 THEN (b - 192) * 64 + (s[i + 1] - 128)
     ELSE IF n = 3 THEN (b - 224) * 4096 + (s[i + 1] - 128) * 64 + (s[i + 2] - 128)
     ELSE (b - 240) * 262144 + (s[i + 1] - 128) * 4096
          + (s[i + 2] - 128) * 64 + (s[i + 3] - 128)

RECURSIVE Utf8Scan(_, _, _)
\* Scans s from byte i with the code points decoded so far.
Utf8Scan(s, i, acc) ==
  IF i > Len(s) THEN [valid |-> TRUE, wide |-> acc]
  ELSE IF ~WellFormedAt(s, i) THEN [valid |-> FALSE, wide |-> acc]
  ELSE Utf8Scan(s, i + utf8_bytes(s[i]), Append(acc, CodePointAt(s, i)))

\* utf8_validate(data, len, utf8_chars): validity and the number of characters.
utf8_validate(s) ==
  LET r == Utf8Scan(s, 1, <<>>)
  IN [valid |-> r.valid, utf8_chars |-> Len(r.wide)]

\* The UTF-8 encoding of one code point.
EncodeCodePoint(cp) ==
  IF cp < 128 THEN <<cp>>
  ELSE IF cp < 2048 THEN <<192 + (cp \div 64), 128 + (cp % 64)>>
  ELSE IF cp < 65536
    THEN <<224 + (cp \div 4096), 128 + ((cp \div 64) % 64), 128 + (cp % 64)>>
  ELSE <<240 + (cp \div 262144), 128 + ((cp \div 4096) % 64),
         128 + ((cp \div 64) % 64), 128 + (cp % 64)>>

RECURSIVE Flatten(_)
Flatten(ss) == IF ss = <<>> THEN <<>> ELSE Head(ss) \o Flatten(Tail(ss))

\* A from_bytes that returns what it decoded before the malformed byte.
from_bytes_partial(s) == Utf8Scan(s, 1, <<>>).wide

\* converter.from_bytes: the decoded wide string, or the wide error string.
from_bytes(s) ==
  LET r == Utf8Scan(s, 1, <<>>)
  IN IF r.valid THEN r.wide ELSE wconv_error

\* converter.to_bytes: the UTF-8 encoding of a wide string.
to_bytes(w) == Flatten([i \in 1..Len(w) |-> EncodeCodePoint(w[i])])

-----------------------------------------------------------------------------
(* TernarySearchTree<wchar_t, ValueType> *)

\* Node(CharT c): has_val_(false), value_(), no children.
NewNode(c) ==
  [c_ |-> c, has_val_ |-> FALSE, value_ |-> [w_len |-> 0],
   left_ |-> 0, mid_ |-> 0, right_ |-> 0]

EmptyTree == [nodes |-> <<>>, root_ |-> 0]

RECURSIVE get_rec_backtrack(_, _, _, _, _)
\* A get that falls back to the node it came through when the descent misses.
get_rec_backtrack(nodes, node, str, len, depth) ==
  IF node = 0 THEN 0
  ELSE LET c == str[depth + 1]
           n == nodes[node]
       IN IF c < n.c_ THEN get_rec_backtrack(nodes, n.left_, str, len, depth)
          ELSE IF c > n.c_ THEN get_rec_backtrack(nodes, n.right_, str, len, depth)
          ELSE IF depth < len - 1 /\ n.mid_ # 0
            THEN LET r == get_rec_backtrack(nodes, n.mid_, str, len, depth + 1)
                 IN IF r # 0 THEN r ELSE node
          ELSE node

RECURSIVE get_rec(_, _, _, _, _)
\* const Node* get(const Node* node, const CharT* str, size_t len, size_t depth)
get_rec(nodes, node, str, len, depth) ==
  IF node = 0 THEN 0
  ELSE LET c == str[depth + 1]
           n == nodes[node]
       IN IF c < n.c_ THEN get_rec(nodes, n.left_, str, len, depth)
          ELSE IF c > n.c_ THEN get_rec(nodes, n.right_, str, len, depth)
          ELSE IF depth < len - 1 /\ n.mid_ # 0
            THEN get_rec(nodes, n.mid_, str, len, depth + 1)
          ELSE node

\* A get that does not look at has_val_.
get_nocheck(tree, str, len) ==
  IF len = 0 THEN 0 ELSE get_rec(tree.nodes, tree.root_, str, len, 0)

\* const Value* get(const CharT* str, size_t len): the node holding the value,
\* 0 on a search miss.
get(tree, str, len) ==
  IF len = 0 THEN 0
  ELSE LET n == get_rec(tree.nodes, tree.root_, str, len, 0)
       IN IF n = 0 \/ ~tree.nodes[n].has_val_ THEN 0 ELSE n

\* A terminal branch that stores the value whether or not the node has one.
StoreValue_Overwrite(nodes, n, v) ==
  [nodes |-> [nodes EXCEPT ![n].value_ = v, ![n].has_val_ = TRUE], ret |-> n]

\* The terminal branch of put: the value is stored only in a node without one.
StoreValue(nodes, n, v) ==
  IF ~nodes[n].has_val_
    THEN [nodes |-> [nodes EXCEPT ![n].value_ = v, ![n].has_val_ = TRUE], ret |-> n]
    ELSE [nodes |-> nodes, ret |-> 0]

RECURSIVE put_rec(_, _, _, _, _, _)
\* Node* put(Node* node, const CharT* str, size_t len, const Value& v, size_t depth):
\* the nodes after the call and the returned pointer.  On a null return the
\* node made for a null `node` is destroyed with new_node.
put_rec(nodes, node, str, len, v, depth) ==
  LET c == str[depth + 1]
      t1 == IF node = 0 THEN Append(nodes, NewNode(c)) ELSE nodes
      n == IF node = 0 THEN Len(t1) ELSE node
      fail == [nodes |-> nodes, ret |-> 0]
  IN IF c < t1[n].c_
       THEN LET r == put_rec(t1, t1[n].left_, str, len, v, depth)
            IN IF r.ret # 0
                 THEN [nodes |-> [r.nodes EXCEPT ![n].left_ = r.ret], ret |-> n]
                 ELSE fail
     ELSE IF c > t1[n].c_
       THEN LET r == put_rec(t1, t1[n].right_, str, len, v, depth)
            IN IF r.ret # 0
                 THEN [nodes |-> [r.nodes EXCEPT ![n].right_ = r.ret], ret |-> n]
                 ELSE fail
     ELSE IF depth < len - 1
       THEN LET r == put_rec(t1, t1[n].mid_, str, len, v, depth + 1)
            IN IF r.ret # 0
                 THEN [nodes |-> [r.nodes EXCEPT ![n].mid_ = r.ret], ret |-> n]
                 ELSE fail
     ELSE LET r == StoreValue(t1, n, v)
          IN IF r.ret # 0 THEN r ELSE fail

\* bool put(const CharT* str, size_t len, const Value& v): the tree after the
\* call and the returned bool.
put(tree, str, len, v) ==
  IF len < 1 THEN [tree |-> tree, ok |-> FALSE]
  ELSE LET r == put_rec(tree.nodes, tree.root_, str, len, v, 0)
       IN IF r.ret # 0
            THEN [tree |-> [nodes |-> r.nodes, root_ |-> r.ret], ok |-> TRUE]
            ELSE [tree |-> tree, ok |-> FALSE]

-----------------------------------------------------------------------------
(* Inputs *)

Max(a, b) == IF a >= b THEN a ELSE b

\* Separator attribute values: every byte string up to MaxSepLen, and the
\* text of the converter's error string.
SepStrings == SeqsUpTo(Bytes, MaxSepLen) \cup {conv_error}

\* Input cells: every byte string up to MaxCellLen, and the text of the
\* converter's error string.
CellStrings == SeqsUpTo(Bytes, MaxCellLen) \cup {conv_error}

\* Shapes of the input tensor: ranks 0 to 3, with and without a zero dimension.
Dims == {<<>>, <<0>>, <<1>>, <<2>>, <<2, 1>>, <<0, 2>>, <<1, 1, 1>>}

PadValues == {<<35>>}

Patterns == SeqsUpTo(CodeUnits, MaxPatLen) \ {<<>>}

Queries == SeqsUpTo(CodeUnits, MaxQueryLen)

-----------------------------------------------------------------------------
(* State after construction of the kernel: the attributes are set, nothing *)
(* of Compute has run.                                                     *)

Locals0 ==
  /\ X_is_string = TRUE /\ input_dims = <<>> /\ input_data = <<>>
  /\ status = "none"
  /\ N = 0 /\ C = 0
  /\ stree = EmptyTree /\ sep_idx = 0 /\ inserted = <<>> /\ put_ret = FALSE
  /\ tokenized_strings = <<>> /\ max_tokens = 0
  /\ wstr = <<>> /\ ws = 0 /\ last_mismatch = 0 /\ len_remaining = 0
  /\ row_tokens = <<>> /\ val = 0 /\ pieces = <<>>
  /\ cell = 0 /\ allocated = FALSE /\ output_dims = <<>>
  /\ output_data = <<>> /\ output_index = 0

Init ==
  /\ separators_ \in SeqsUpTo(SepStrings, MaxSeps)
  /\ mark_ \in BOOLEAN
  /\ mincharnum_ \in 0..MaxMinCharNum
  /\ padvalue_ \in PadValues
  /\ pc = "idle"
  /\ Locals0

Config == <<separators_, mark_, mincharnum_, padvalue_>>
Input == <<X_is_string, input_dims, input_data>>
TreeVars == <<stree, sep_idx, inserted, put_ret>>
ScanVars == <<wstr, ws, last_mismatch, len_remaining, row_tokens, val, pieces>>
OutVars == <<allocated, output_dims, output_data, output_index>>

\* return Status(common::ONNXRUNTIME, common::INVALID_ARGUMENT, msg)
Return(msg) == pc' = "done" /\ status' = msg

-----------------------------------------------------------------------------
(* Tokenizer::Compute, up to the dispatch *)

\* A mode test that takes any empty separator for character mode.
char_tokenezation_any == \E i \in 1..Len(separators_) : separators_[i] = <<>>

\* separators_.size() == 1 && separators_[0].empty()
char_tokenezation == Len(separators_) = 1 /\ separators_[1] = <<>>

\* The Status of the shape checks, OK when N and C are derived.
ShapeStatus(dims) ==
  IF Len(dims) # 1 /\ Len(dims) # 2 THEN ErrDims
  ELSE IF Len(dims) = 1 THEN (IF dims[1] < 1 THEN ErrCDim ELSE OK)
  ELSE IF dims[1] < 1 \/ dims[2] < 1 THEN ErrNCDim ELSE OK

Compute ==
  /\ pc = "idle"
  /\ IF separators_ = <<>>
       THEN Return(ErrNoSeparators) /\ UNCHANGED <<Input, N, C, max_tokens, cell>>
     ELSE IF char_tokenezation /\ mincharnum_ > 1
       THEN Return(ErrMinCharNum) /\ UNCHANGED <<Input, N, C, max_tokens, cell>>
     ELSE \E is_string \in BOOLEAN, dims \in Dims :
       /\ X_is_string' = is_string
       /\ input_dims' = dims
       /\ UNCHANGED input_data
       /\ IF ~is_string
            THEN Return(ErrInputType) /\ UNCHANGED <<N, C, max_tokens, cell>>
          ELSE IF ShapeStatus(dims) # OK
            THEN Return(ShapeStatus(dims)) /\ UNCHANGED <<N, C, max_tokens, cell>>
          ELSE /\ N' = (IF Len(dims) = 1 THEN 1 ELSE dims[1])
               /\ C' = (IF Len(dims) = 1 THEN dims[1] ELSE dims[2])
               /\ max_tokens' = 0
               /\ cell' = 0
               /\ pc' = (IF char_tokenezation THEN "char_count" ELSE "sep_build")
               /\ UNCHANGED status
  /\ UNCHANGED <<Config, TreeVars, tokenized_strings, ScanVars, OutVars>>

-----------------------------------------------------------------------------
(* Tokenizer::CharTokenize *)

\* One iteration of the counting loop: the cell is read and validated.
CharCountCell ==
  /\ pc = "char_count"
  /\ \E s \in CellStrings :
       LET v == utf8_validate(s)
           tokens == v.utf8_chars + (IF mark_ THEN 2 ELSE 0)
       IN /\ input_data' = Append(input_data, s)
          /\ IF ~v.valid
               THEN Return(ErrCharUtf8) /\ UNCHANGED <<max_tokens, cell>>
               ELSE /\ max_tokens' = Max(max_tokens, tokens)
                    /\ cell' = (IF cell + 1 < N * C THEN cell + 1 ELSE 0)
                    /\ pc' = (IF cell + 1 < N * C THEN "char_count" ELSE "char_alloc")
                    /\ UNCHANGED status
  /\ UNCHANGED <<Config, X_is_string, input_dims, N, C, TreeVars,
                 tokenized_strings, ScanVars, OutVars>>

\* ctx->Output(0, output_shape) with the trailing dimension max_tokens.
Allocate(next) ==
  /\ allocated' = TRUE
  /\ output_dims' = Append(input_dims, max_tokens)
  /\ output_data' = <<>>
  /\ output_index' = 0
  /\ pc' = next

CharAlloc ==
  /\ pc = "char_alloc"
  /\ Allocate("char_write")
  /\ UNCHANGED <<Config, Input, status, N, C, TreeVars, tokenized_strings,
                 max_tokens, ScanVars, cell>>

RECURSIVE CharTokens(_, _)
\* The token loop of one cell: s.substr(token_idx, utf8_bytes(s[token_idx])),
\* token_idx 0-based.
CharTokens(s, token_idx) ==
  IF token_idx >= Len(s) THEN <<>>
  ELSE LET tlen == utf8_bytes(s[token_idx + 1])
           last == IF token_idx + tlen <= Len(s) THEN token_idx + tlen ELSE Len(s)
       IN <<SubSeq(s, token_idx + 1, last)>> \o CharTokens(s, token_idx + tlen)

\* const size_t pads = max_tokens - (mark_ * 2) - tokens
CharPads(tokens) == max_tokens - (IF mark_ THEN 2 ELSE 0) - tokens

Copies(n, x) == [i \in 1..n |-> x]

\* What the write loop's body stores for one cell, in order.
CharRow(s) ==
  LET toks == CharTokens(s, 0)
  IN (IF mark_ THEN <<<<start_text>>>> ELSE <<>>)
     \o toks
     \o Copies(CharPads(Len(toks)), padvalue_)
     \o (IF mark_ THEN <<<<end_text>>>> ELSE <<>>)

CharWriteCell ==
  /\ pc = "char_write"
  /\ LET row == CharRow(input_data[cell + 1])
     IN /\ output_data' = output_data \o row
        /\ output_index' = output_index + Len(row)
  /\ cell' = cell + 1
  /\ IF cell + 1 < N * C
       THEN UNCHANGED <<pc, status>>
       ELSE Return(OK)
  /\ UNCHANGED <<Config, Input, N, C, TreeVars, tokenized_strings, max_tokens,
                 ScanVars, allocated, output_dims>>

-----------------------------------------------------------------------------
(* Tokenizer::SeparatorTokenize *)

\* One iteration of the loop over separators_: decode, reject, insert.
SepBuildStep ==
  /\ pc = "sep_build"
  /\ LET sep == separators_[sep_idx + 1]
         wsep == from_bytes(sep)
         r == put(stree, wsep, Len(wsep), [w_len |-> Len(wsep)])
     IN IF wsep = <<>>
          THEN Return(ErrEmptySep) /\ UNCHANGED TreeVars
        ELSE IF wsep = wconv_error
          THEN Return(ErrSepUtf8) /\ UNCHANGED TreeVars
        ELSE /\ stree' = r.tree
             /\ put_ret' = r.ok
             /\ inserted' = Append(inserted, wsep)
             /\ sep_idx' = sep_idx + 1
             /\ pc' = (IF sep_idx + 1 < Len(separators_) THEN "sep_build" ELSE "sep_read")
             /\ UNCHANGED status
  /\ UNCHANGED <<Config, Input, N, C, tokenized_strings, max_tokens, ScanVars,
                 cell, OutVars>>

\* The head of the loop over cells: the cell is read and decoded.
SepReadCell ==
  /\ pc = "sep_read"
  /\ \E s \in CellStrings :
       LET w == from_bytes(s)
       IN /\ input_data' = Append(input_data, s)
          /\ wstr' = w
          /\ IF w = wconv_error
               THEN /\ Return(ErrInputUtf8)
                    /\ UNCHANGED <<ws, last_mismatch, len_remaining>>
               ELSE /\ ws' = 0
                    /\ last_mismatch' = 0
                    /\ len_remaining' = Len(w)
                    /\ pc' = "sep_scan"
                    /\ UNCHANGED status
  /\ row_tokens' = <<>>
  /\ pieces' = <<>>
  /\ UNCHANGED <<Config, X_is_string, input_dims, N, C, TreeVars,
                 tokenized_strings, max_tokens, val, cell, OutVars>>

\* The text at the cursor: the pointer ws with len_remaining units after it.
AtCursor == SubSeq(wstr, ws + 1, Len(wstr))

\* if (token_len > mincharnum_): whether the span cut by a match is emitted.
KeepToken(token_len) == token_len > mincharnum_

\* ws += val->w_len: the cursor after a match at node v.
AfterMatch(v) == ws + stree.nodes[v].value_.w_len

\* last_mismatch set from the cursor before it moves past the separator.
NextMismatch_Stale(new_ws) == ws

\* last_mismatch = ws, after the cursor has moved past the separator.
NextMismatch(new_ws) == new_ws

\* One iteration of while (len_remaining > 0).  pieces records what became of
\* each code unit passed: a token, a dropped span or a separator occurrence.
SepScanStep ==
  /\ pc = "sep_scan"
  /\ len_remaining > 0
  /\ LET v == get(stree, AtCursor, len_remaining)
         token_len == ws - last_mismatch
         span == SubSeq(wstr, last_mismatch + 1, ws)
     IN /\ val' = v
        /\ IF v # 0
             THEN /\ row_tokens' = (IF KeepToken(token_len)
                                      THEN Append(row_tokens, span) ELSE row_tokens)
                  /\ ws' = AfterMatch(v)
                  /\ len_remaining' = len_remaining - stree.nodes[v].value_.w_len
                  /\ last_mismatch' = NextMismatch(ws')
                  /\ pieces' = pieces
                       \o (IF KeepToken(token_len) THEN <<[kind |-> "token", text |-> span]>>
                           ELSE IF token_len > 0 THEN <<[kind |-> "dropped", text |-> span]>>
                           ELSE <<>>)
                       \o <<[kind |-> "sep", text |-> SubSeq(wstr, ws + 1, ws')]>>
             ELSE /\ ws' = ws + 1
                  /\ len_remaining' = len_remaining - 1
                  /\ UNCHANGED <<row_tokens, last_mismatch, pieces>>
  /\ UNCHANGED <<Config, Input, pc, status, N, C, TreeVars, tokenized_strings,
                 max_tokens, wstr, cell, OutVars>>

\* A trailing rule that applies the mincharnum_ filter of the loop.
KeepTrailing_Filtered == ws - last_mismatch > mincharnum_

\* if (ws > last_mismatch): whether the span left after the scan is emitted.
KeepTrailing == ws > last_mismatch

\* After the while loop: the trailing token, the row's size, max_tokens.
SepEndCell ==
  /\ pc = "sep_scan"
  /\ len_remaining = 0
  /\ LET span == SubSeq(wstr, last_mismatch + 1, ws)
         row == IF KeepTrailing THEN Append(row_tokens, span) ELSE row_tokens
         tokens == Len(row) + (IF mark_ THEN 2 ELSE 0)
     IN /\ row_tokens' = row
        /\ pieces' = (IF KeepTrailing
                        THEN Append(pieces, [kind |-> "token", text |-> span])
                        ELSE pieces)
        /\ tokenized_strings' = Append(tokenized_strings, row)
        /\ max_tokens' = Max(max_tokens, tokens)
  /\ cell' = (IF cell + 1 < N * C THEN cell + 1 ELSE 0)
  /\ pc' = (IF cell + 1 < N * C THEN "sep_read" ELSE "sep_alloc")
  /\ UNCHANGED <<Config, Input, status, N, C, TreeVars, wstr, ws, last_mismatch,
                 len_remaining, val, OutVars>>

SepAlloc ==
  /\ pc = "sep_alloc"
  /\ Allocate("sep_write")
  /\ UNCHANGED <<Config, Input, status, N, C, TreeVars, tokenized_strings,
                 max_tokens, ScanVars, cell>>

\* A pad count that forgets the two marker slots.
SepPads_NoMark(row) == max_tokens - Len(row)

\* const size_t pads = max_tokens - (mark_ * 2) - row.size()
SepPads(row) == max_tokens - (IF mark_ THEN 2 ELSE 0) - Len(row)

\* What the write loop's body stores for one row, in order.
SepRow(row) ==
  (IF mark_ THEN <<<<start_text>>>> ELSE <<>>)
  \o [i \in 1..Len(row) |-> to_bytes(row[i])]
  \o Copies(SepPads(row), padvalue_)
  \o (IF mark_ THEN <<<<end_text>>>> ELSE <<>>)

SepWriteRow ==
  /\ pc = "sep_write"
  /\ LET row == SepRow(tokenized_strings[cell + 1])
     IN /\ output_data' = output_data \o row
        /\ output_index' = output_index + Len(row)
  /\ cell' = cell + 1
  /\ IF cell + 1 < Len(tokenized_strings)
       THEN UNCHANGED <<pc, status>>
       ELSE Return(OK)
  /\ UNCHANGED <<Config, Input, N, C, TreeVars, tokenized_strings, max_tokens,
                 ScanVars, allocated, output_dims>>

Next ==
  \/ Compute
  \/ CharCountCell
  \/ CharAlloc
  \/ CharWriteCell
  \/ SepBuildStep
  \/ SepReadCell
  \/ SepScanStep
  \/ SepEndCell
  \/ SepAlloc
  \/ SepWriteRow

Spec == Init /\ [][Next]_vars

-----------------------------------------------------------------------------
(* The matcher alone: patterns are inserted into an empty tree, then the   *)
(* tree is queried.                                                        *)

InitTree ==
  /\ separators_ = <<>> /\ mark_ = FALSE /\ mincharnum_ = 0
  /\ padvalue_ \in PadValues
  /\ pc = "tree_build"
  /\ Locals0

\* stree.put(p, |p|, {|p|}), as SeparatorTokenize calls it.
TreePut ==
  /\ pc = "tree_build"
  /\ Len(inserted) < MaxPuts
  /\ \E p \in Patterns :
       LET r == put(stree, p, Len(p), [w_len |-> Len(p)])
       IN /\ stree' = r.tree
          /\ put_ret' = r.ok
          /\ inserted' = Append(inserted, p)
  /\ UNCHANGED <<Config, Input, pc, status, N, C, sep_idx, tokenized_strings,
                 max_tokens, ScanVars, cell, OutVars>>

\* stree.get(q, |q|) on the finished tree.
TreeGet ==
  /\ pc = "tree_build"
  /\ \E q \in Queries :
       /\ wstr' = q
       /\ val' = get(stree, q, Len(q))
  /\ pc' = "tree_query"
  /\ UNCHANGED <<Config, Input, status, N, C, TreeVars, tokenized_strings,
                 max_tokens, ws, last_mismatch, len_remaining, row_tokens,
                 pieces, cell, OutVars>>

NextTree == TreePut \/ TreeGet

SpecTree == InitTree /\ [][NextTree]_vars

-----------------------------------------------------------------------------
(* Vocabulary of the properties *)

\* The patterns passed to put so far, as a set.
Registered == {inserted[i] : i \in 1..Len(inserted)}

IsPrefix(p, q) == Len(p) <= Len(q) /\ SubSeq(q, 1, Len(p)) = p

\* Some registered pattern is strictly longer than k and agrees with q on
\* its first k units.
Extends(S, q, k) == \E p \in S : Len(p) > k /\ SubSeq(p, 1, k) = SubSeq(q, 1, k)

\* The answer of a non-backtracking longest-prefix search, stated on the set
\* of patterns: the first length at which the query ends or no pattern goes
\* on, and a match only if that prefix is itself a pattern.  0 is no match.
SetMatch(S, q) ==
  IF q = <<>> THEN 0
  ELSE LET k == CHOOSE j \in 1..Len(q) :
                  /\ j = Len(q) \/ ~Extends(S, q, j)
                  /\ \A i \in 1..(j - 1) : Extends(S, q, i)
       IN IF SubSeq(q, 1, k) \in S THEN k ELSE 0

\* The length a get result reports, 0 for nullptr.
MatchLen(v) == IF v = 0 THEN 0 ELSE stree.nodes[v].value_.w_len

IsValidUtf8(s) == Utf8Scan(s, 1, <<>>).valid

InvalidConfiguration == {ErrNoSeparators, ErrEmptySep, ErrMinCharNum}
InvalidUtf8 == {ErrCharUtf8, ErrSepUtf8, ErrInputUtf8}

\* Character mode: exactly one separator, and it is empty.
CharacterMode == Len(separators_) = 1 /\ separators_[1] = <<>>

Succeeded == pc = "done" /\ status = OK
Failed == pc = "done" /\ status # OK

TwoMark == IF mark_ THEN 2 ELSE 0

Texts(ps) == [i \in 1..Len(ps) |-> ps[i].text]
OfKind(ps, k) == SelectSeq(ps, LAMBDA x : x.kind = k)

-----------------------------------------------------------------------------
(* C1 *)

\* The tokens of cell i as the output holds them: in character mode the UTF-8
\* encoding of each code point of the cell, in separator mode the encoding of
\* each token of the cell's row.
CellTokens(i) ==
  IF CharacterMode
    THEN LET w == Utf8Scan(input_data[i], 1, <<>>).wide
         IN [j \in 1..Len(w) |-> EncodeCodePoint(w[j])]
    ELSE [j \in 1..Len(tokenized_strings[i]) |-> to_bytes(tokenized_strings[i][j])]

RECURSIVE MaxOver(_, _)
MaxOver(f, n) == IF n = 0 THEN 0 ELSE Max(f[n], MaxOver(f, n - 1))

\* max over all cells of (tokenCount + 2*mark)
MaxTokens == MaxOver([i \in 1..(N * C) |-> Len(CellTokens(i)) + TwoMark], N * C)

ExpectedRow(i) ==
  (IF mark_ THEN <<<<start_text>>>> ELSE <<>>)
  \o CellTokens(i)
  \o [j \in 1..(MaxTokens - TwoMark - Len(CellTokens(i))) |-> padvalue_]
  \o (IF mark_ THEN <<<<end_text>>>> ELSE <<>>)

\* C1: when Compute returns OK, in either mode, the output's trailing dimension
\* is the maximum over the cells of (token count + 2 if mark), every cell's row
\* is START (if mark), the cell's tokens in order, the pads, END (if mark), so
\* has exactly that many entries, and the write index ends at N*C*maxTokens;
\* while rows are written the index never passes N*C*maxTokens.
C1_Layout ==
  /\ allocated =>
       /\ output_index = Len(output_data)
       /\ output_index <= N * C * max_tokens
  /\ Succeeded =>
       /\ allocated
       /\ max_tokens = MaxTokens
       /\ output_dims = Append(input_dims, MaxTokens)
       /\ output_index = N * C * MaxTokens
       /\ \A i \in 1..(N * C) :
            SubSeq(output_data, (i - 1) * MaxTokens + 1, i * MaxTokens) = ExpectedRow(i)

\* A marked separator-mode batch of two cells, the first with fewer tokens
\* than the second, has been written.
C1_Witness ==
  /\ Succeeded /\ mark_ /\ ~CharacterMode
  /\ Len(tokenized_strings) = 2
  /\ Len(tokenized_strings[1]) < Len(tokenized_strings[2])
  /\ Len(tokenized_strings[1]) > 0

-----------------------------------------------------------------------------
(* C2 *)

\* C2: a non-empty span cut off by a separator match is dropped exactly when
\* it is strictly shorter than mincharnum_, and emitted as a token when its
\* length is mincharnum_ or more.
C2_DropsOnlyShorter ==
  [][(pc = "sep_scan" /\ len_remaining > 0 /\ val' # 0 /\ ws > last_mismatch) =>
       IF ws - last_mismatch < mincharnum_
         THEN row_tokens' = row_tokens
         ELSE row_tokens' = Append(row_tokens, SubSeq(wstr, last_mismatch + 1, ws))]_vars

-----------------------------------------------------------------------------
(* C3 *)

\* C3: when the scan of a cell ends with the cursor past the last cut, the
\* remaining span becomes the last token of the cell's row, whatever its
\* length and whatever mincharnum_.
C3_TrailingKept ==
  [][(pc = "sep_scan" /\ len_remaining = 0 /\ ws > last_mismatch) =>
       /\ row_tokens' = Append(row_tokens, SubSeq(wstr, last_mismatch + 1, ws))
       /\ tokenized_strings' = Append(tokenized_strings, row_tokens')]_vars

\* A cell's row has been closed with a trailing token no longer than
\* mincharnum_.
C3_Witness ==
  /\ pc \in {"sep_read", "sep_alloc"}
  /\ tokenized_strings # <<>>
  /\ ws > last_mismatch
  /\ ws - last_mismatch <= mincharnum_
  /\ row_tokens # <<>>
  /\ row_tokens[Len(row_tokens)] = SubSeq(wstr, last_mismatch + 1, ws)
  /\ tokenized_strings[Len(tokenized_strings)] = row_tokens

-----------------------------------------------------------------------------
(* C4 *)

\* C4: when Compute returns an error the output has not been allocated and
\* nothing has been written; the output is allocated only after every cell
\* has been read and found valid; and a cell that is not valid UTF-8, at any
\* position, makes Compute return an invalid-UTF-8 error at once.
C4_NoOutputOnError ==
  /\ Failed => ~allocated /\ output_data = <<>>
  /\ allocated =>
       /\ Len(input_data) = N * C
       /\ \A i \in 1..Len(input_data) : IsValidUtf8(input_data[i])
  /\ (\E i \in 1..Len(input_data) : ~IsValidUtf8(input_data[i])) =>
       Failed /\ status \in InvalidUtf8

\* The second cell of a batch was not valid UTF-8 and Compute returned the error.
C4_Witness ==
  /\ Failed /\ status = ErrInputUtf8
  /\ Len(input_data) = 2
  /\ IsValidUtf8(input_data[1])
  /\ ~IsValidUtf8(input_data[2])

-----------------------------------------------------------------------------
(* C5 *)

\* The configurations the claim is about.
EmptySeparatorConfig ==
  \/ separators_ = <<>>
  \/ ~CharacterMode /\ \E i \in 1..Len(separators_) : separators_[i] = <<>>

\* C5 as stated, for the inputs most favourable to it (a string tensor of
\* valid shape, no separator spelling the converter's error text): with an
\* empty separators list, or an empty separator outside character mode,
\* Compute returns an InvalidConfiguration error before any cell is read.
C5_AlwaysInvalidConfiguration ==
  ( /\ EmptySeparatorConfig
    /\ \A i \in 1..Len(separators_) : separators_[i] # conv_error ) =>
    /\ input_data = <<>>
    /\ (pc = "done" /\ separators_ # <<>> /\ X_is_string /\ ShapeStatus(input_dims) = OK)
         => status \in InvalidConfiguration
    /\ (pc = "done" /\ separators_ = <<>>) => status \in InvalidConfiguration

\* The separator loop reports this separator as invalid UTF-8.
DecodesToError(sep) == ~IsValidUtf8(sep) \/ sep = conv_error

FirstEmpty == CHOOSE i \in 1..Len(separators_) :
                /\ separators_[i] = <<>>
                /\ \A j \in 1..(i - 1) : separators_[j] # <<>>

\* C5 amended: in these configurations Compute returns an error before any
\* cell is read and without allocating.  The error is "requires at least one
\* separator" for the empty list.  For an empty separator outside character
\* mode it is the input type or shape error when the input tensor has one,
\* else the invalid-UTF-8 separator error when a separator before the first
\* empty one decodes to the converter's error string, else "No empty
\* separators allowed".
C5_ErrorBeforeAnyCell ==
  EmptySeparatorConfig =>
    /\ input_data = <<>> /\ ~allocated
    /\ pc \in {"idle", "sep_build", "done"}
    /\ pc = "done" =>
         status = (IF separators_ = <<>> THEN ErrNoSeparators
                   ELSE IF ~X_is_string THEN ErrInputType
                   ELSE IF ShapeStatus(input_dims) # OK THEN ShapeStatus(input_dims)
                   ELSE IF \E j \in 1..(FirstEmpty - 1) : DecodesToError(separators_[j])
                     THEN ErrSepUtf8
                   ELSE ErrEmptySep)

\* Compute has rejected a list whose second separator is empty.
C5_Witness ==
  /\ Failed /\ status = ErrEmptySep
  /\ Len(separators_) = 2
  /\ separators_[1] # <<>>
  /\ separators_[2] = <<>>
  /\ input_data = <<>>

-----------------------------------------------------------------------------
(* C6 *)

\* The scan of the last cell read has ended.
CellScanned ==
  /\ ~CharacterMode
  /\ tokenized_strings # <<>>
  /\ pc \in {"sep_read", "sep_alloc", "sep_write"} \/ Succeeded

\* C6: the tokens emitted for a cell, the separator occurrences consumed and
\* the spans dropped by the mincharnum_ filter, in the order the scan met
\* them, concatenate to the text scanned so far, and once the cell is done
\* their UTF-8 encodings concatenate to the cell's bytes; the tokens among them
\* are the cell's row, every consumed occurrence is a registered separator,
\* and with mincharnum_ = 0 nothing is dropped.
C6_RoundTrip ==
  /\ pc = "sep_scan" =>
       /\ Flatten(Texts(pieces)) = SubSeq(wstr, 1, last_mismatch)
       /\ Texts(OfKind(pieces, "token")) = row_tokens
  /\ (pc = "sep_scan" \/ CellScanned) =>
       /\ \A i \in 1..Len(pieces) :
            /\ pieces[i].kind = "sep" => pieces[i].text \in Registered
            /\ pieces[i].kind = "dropped" =>
                 /\ mincharnum_ > 0
                 /\ Len(pieces[i].text) <= mincharnum_
                 /\ i < Len(pieces) /\ pieces[i + 1].kind = "sep"
  /\ CellScanned =>
       /\ Flatten([i \in 1..Len(pieces) |-> to_bytes(pieces[i].text)])
            = input_data[Len(input_data)]
       /\ Texts(OfKind(pieces, "token")) = tokenized_strings[Len(tokenized_strings)]

\* A cell has been scanned into a dropped span, a separator occurrence and a
\* trailing token.
C6_Witness ==
  /\ CellScanned
  /\ Len(pieces) = 3
  /\ pieces[1].kind = "dropped"
  /\ pieces[2].kind = "sep"
  /\ pieces[3].kind = "token"

-----------------------------------------------------------------------------
(* C7 *)

\* C7: if a registered pattern p is a prefix of the query, some registered
\* pattern strictly extends p, the query goes on after p, and its next unit
\* continues no registered pattern that has p as prefix, then get reports no
\* match; so does get for "a", "ab" inserted in that order and the query "ac".
C7_NoBacktrack ==
  pc = "tree_query" =>
    \A p \in Registered :
      ( /\ IsPrefix(p, wstr)
        /\ Len(wstr) > Len(p)
        /\ \E p2 \in Registered : Len(p2) > Len(p) /\ IsPrefix(p, p2)
        /\ ~\E p3 \in Registered :
              /\ Len(p3) > Len(p) /\ IsPrefix(p, p3)
              /\ p3[Len(p) + 1] = wstr[Len(p) + 1] )
      => val = 0

\* "a" then "ab" inserted, "ac" queried, no match reported.
C7_Witness ==
  /\ pc = "tree_query"
  /\ inserted = <<<<97>>, <<97, 98>>>>
  /\ wstr = <<97, 99>>
  /\ val = 0

-----------------------------------------------------------------------------
(* C8 *)

\* C8: the answer of get, match or not and the match length, is a function of
\* the set of patterns inserted, whatever their order and repetition in the
\* list; and a put of a pattern inserted before returns false and leaves the
\* tree as it was.
C8_SetOnly ==
  /\ [](pc = "tree_query" => MatchLen(val) = SetMatch(Registered, wstr))
  /\ [][(inserted' # inserted /\ inserted'[Len(inserted')] \in Registered) =>
          (put_ret' = FALSE /\ stree' = stree)]_vars

\* A pattern was inserted twice, the second put returned false, and a longer
\* query has matched the pattern.
C8_Witness ==
  /\ pc = "tree_query"
  /\ Len(inserted) = 2
  /\ inserted[1] = inserted[2]
  /\ ~put_ret
  /\ val # 0 /\ MatchLen(val) = Len(inserted[1])
  /\ Len(wstr) > MatchLen(val)

-----------------------------------------------------------------------------
(* C9 *)

\* C9: on every step of a cell's scan, a match of length L means that the L
\* units at the cursor are a registered separator and that no longer
\* registered separator is a prefix of the remaining text, so 1 <= L <=
\* len_remaining; the cursor stays within the cell, cursor and remaining
\* length add up to the cell's length, and the remaining length strictly
\* decreases while staying non-negative, which bounds the scan of the cell.
C9_MatchIsSeparator ==
  [][(pc = "sep_scan" /\ len_remaining > 0) =>
       /\ val' # 0 =>
            LET L == MatchLen(val')
            IN /\ 1 <= L /\ L <= len_remaining
               /\ SubSeq(AtCursor, 1, L) \in Registered
               /\ ~\E p \in Registered : Len(p) > L /\ IsPrefix(p, AtCursor)
               /\ ws' = ws + L
       /\ ws' <= Len(wstr)
       /\ ws' + len_remaining' = Len(wstr)
       /\ 0 <= len_remaining' /\ len_remaining' < len_remaining]_vars

\* The scan has just matched a two-unit separator where a one-unit separator
\* is registered too.
C9_Witness ==
  /\ pc = "sep_scan"
  /\ val # 0 /\ MatchLen(val) = 2
  /\ ws = last_mismatch /\ ws >= 2
  /\ \E p \in Registered : Len(p) = 1 /\ IsPrefix(p, SubSeq(wstr, ws - 1, ws))

-----------------------------------------------------------------------------
(* C10 *)

\* C10: an invalid-UTF-8 error is returned only if a separator or a cell read
\* is not valid UTF-8.
C10_Utf8ErrorOnlyIfInvalid ==
  (pc = "done" /\ status \in InvalidUtf8) =>
    \/ \E i \in 1..Len(separators_) : ~IsValidUtf8(separators_[i])
    \/ \E i \in 1..Len(input_data) : ~IsValidUtf8(input_data[i])

====
